---- MODULE Spec2Model ----
(***************************************************************************)
(* DispatchLayer (src/src/lib.rs): a tracing Layer that owns a Vec of      *)
(* boxed layer stacks, answers register_callsite / enabled by combining    *)
(* the stacks' answers, and forwards every other Layer callback to each    *)
(* stack.                                                                  *)
(*                                                                         *)
(* A layer stack handed to `with` is either a leaf layer (any other Layer  *)
(* implementation: it has a fixed interest and a fixed `enabled` answer,   *)
(* and every call it receives is recorded) or another DispatchLayer.       *)
(* A leaf's `enabled` may also panic ("panic"): the panic unwinds through  *)
(* the iterator adaptor that called it.                                    *)
(***************************************************************************)
EXTENDS Integers, Sequences, FiniteSets, TLC

\* Largest number of layer values (leaf layers and DispatchLayers, at any
\* nesting depth) held by the modelled DispatchLayer.
MaxNodes == 3

\* tracing::subscriber::Interest
Interests == {"never", "sometimes", "always"}

\* What a leaf's `enabled` does: return true, return false, or panic.
EnabledAnswers == {"true", "false", "panic"}

\* Metadata, span ids, attributes, records and events are opaque values that
\* the dispatcher only passes along.
Metadatas == {"metadata"}
Ids == {"id1", "id2"}
Attributes == {"attrs"}
Records == {"values"}
Events == {"event"}
Contexts == {"ctx"}

\* A leaf layer as passed to `with` (not yet numbered).
Layers ==
    [kind : {"layer"}, id : {0}, interest : Interests, en : EnabledAnswers,
     members : {<<>>}]

\* A DispatchLayer value: DispatchLayer(Vec<Box<dyn Layer>>).
DispatchLayer(vec) ==
    [kind |-> "dispatch", id |-> 0, interest |-> "never", en |-> "false",
     members |-> vec]

RECURSIVE Vecs(_)
RECURSIVE Stacks(_)
\* All Vec<Box<dyn Layer>> values holding exactly n layer values in total.
Vecs(n) ==
    IF n = 0 THEN {<<>>}
    ELSE UNION { { <<g>> \o rest : g \in Stacks(k), rest \in Vecs(n - k) } :
                 k \in 1..n }
\* All layer stacks made of exactly n layer values: a leaf, or a
\* DispatchLayer built by new() and with().
Stacks(n) ==
    (IF n = 1 THEN Layers ELSE {}) \cup { DispatchLayer(v) : v \in Vecs(n - 1) }

StacksUpTo(n) == UNION { Stacks(k) : k \in 1..n }

RECURSIVE Size(_)
\* Number of layer values in a Vec, nested ones included.
Size(vec) ==
    IF vec = <<>> THEN 0
    ELSE 1 + Size(Head(vec).members) + Size(Tail(vec))

RECURSIVE CountLayers(_)
\* Number of leaf layers in a Vec, nested ones included.
CountLayers(vec) ==
    IF vec = <<>> THEN 0
    ELSE (IF Head(vec).kind = "layer" THEN 1 ELSE CountLayers(Head(vec).members))
         + CountLayers(Tail(vec))

RECURSIVE Number(_, _)
\* Gives every leaf of vec its identity: base+1, base+2, ... from left to
\* right.  The identity is what a recorded call names.
Number(vec, base) ==
    IF vec = <<>> THEN <<>>
    ELSE LET h == Head(vec) IN
         IF h.kind = "layer"
         THEN <<[h EXCEPT !.id = base + 1]>> \o Number(Tail(vec), base + 1)
         ELSE <<[h EXCEPT !.members = Number(h.members, base)]>>
              \o Number(Tail(vec), base + CountLayers(h.members))

VARIABLES
    layers,   \* self.0 of the DispatchLayer
    call,     \* the last operation invoked on it, with its arguments
    ret,      \* what that operation returned ("panic": it unwound)
    trace     \* the calls the leaf layers received during it, in order

vars == <<layers, call, ret, trace>>

\* One call received by a leaf layer.
Invocation(f, op, args) == [layer |-> f.id, op |-> op, args |-> args]

\* Context::clone
Clone(ctx) == ctx

\* What a leaf layer does with a call: it records it and answers from its
\* fixed behaviour (a leaf stands for any Layer that is not a DispatchLayer).
LayerAnswer(f, op, args) ==
    [ret |-> CASE op = "register_callsite" -> f.interest
               [] op = "enabled" -> f.en
               [] OTHER -> "unit",
     calls |-> <<Invocation(f, op, args)>>]

\* A call through Box<dyn Layer>: to the leaf, or to the nested DispatchLayer.
RECURSIVE Dyn(_, _, _)

\* The closure without its `!overall.is_always()` test: a later sometimes
\* replaces an earlier always.
fold_closure_unguarded(overall, particular) ==
    IF particular = "always" THEN particular
    ELSE IF particular = "sometimes" THEN particular
    ELSE overall

\* The closure with the negation of `overall.is_always()` dropped.
fold_closure_negation_dropped(overall, particular) ==
    IF particular = "always" THEN particular
    ELSE IF particular = "sometimes" /\ overall = "always" THEN particular
    ELSE overall

\* The closure with `particular` in its last branch: the last answer wins.
fold_closure_last(overall, particular) ==
    IF particular = "always" THEN particular
    ELSE IF particular = "sometimes" /\ ~(overall = "always") THEN particular
    ELSE particular

\* The closure folded by register_callsite.
fold_closure(overall, particular) ==
    IF particular = "always" THEN particular
    ELSE IF particular = "sometimes" /\ ~(overall = "always") THEN particular
    ELSE overall

RECURSIVE fold_short_circuit(_, _, _, _)
\* The fold leaving the loop as soon as the accumulator is always.
fold_short_circuit(self, metadata, i, acc) ==
    IF i > Len(self) \/ acc.ret = "always" THEN acc
    ELSE LET r == Dyn(self[i], "register_callsite", <<metadata>>) IN
         fold_short_circuit(self, metadata, i + 1,
              [ret |-> fold_closure(acc.ret, r.ret), calls |-> acc.calls \o r.calls])

RECURSIVE fold(_, _, _, _)
\* self.0.iter().map(|f| f.register_callsite(metadata)).fold(init, closure),
\* from element i on; acc is the accumulator so far with the calls made.
fold(self, metadata, i, acc) ==
    IF i > Len(self) THEN acc
    ELSE LET r == Dyn(self[i], "register_callsite", <<metadata>>) IN
         fold(self, metadata, i + 1,
              [ret |-> fold_closure(acc.ret, r.ret), calls |-> acc.calls \o r.calls])

register_callsite(self, metadata) ==
    fold(self, metadata, 1, [ret |-> "never", calls |-> <<>>])

RECURSIVE any_all(_, _, _, _, _)
\* Iterator::all in place of Iterator::any.
any_all(self, metadata, ctx, i, calls) ==
    IF i > Len(self) THEN [ret |-> "true", calls |-> calls]
    ELSE LET r == Dyn(self[i], "enabled", <<metadata, Clone(ctx)>>) IN
         CASE r.ret = "false" -> [ret |-> "false", calls |-> calls \o r.calls]
           [] r.ret = "panic" -> [ret |-> "panic", calls |-> calls \o r.calls]
           [] OTHER -> any_all(self, metadata, ctx, i + 1, calls \o r.calls)

RECURSIVE any_rev(_, _, _, _, _)
\* self.0.iter().rev().any(..): the groups are asked from the last one.
any_rev(self, metadata, ctx, i, calls) ==
    IF i > Len(self) THEN [ret |-> "false", calls |-> calls]
    ELSE LET r == Dyn(self[Len(self) + 1 - i], "enabled", <<metadata, Clone(ctx)>>) IN
         CASE r.ret = "true" -> [ret |-> "true", calls |-> calls \o r.calls]
           [] r.ret = "panic" -> [ret |-> "panic", calls |-> calls \o r.calls]
           [] OTHER -> any_rev(self, metadata, ctx, i + 1, calls \o r.calls)

RECURSIVE any_eager(_, _, _, _, _)
\* Every group is asked before the answers are combined (no short-circuit).
any_eager(self, metadata, ctx, i, calls) ==
    IF i > Len(self) THEN [ret |-> "false", calls |-> calls]
    ELSE LET r == Dyn(self[i], "enabled", <<metadata, Clone(ctx)>>) IN
         IF r.ret = "panic" THEN [ret |-> "panic", calls |-> calls \o r.calls]
         ELSE LET rest == any_eager(self, metadata, ctx, i + 1, calls \o r.calls) IN
              IF rest.ret = "panic" \/ r.ret = "false" THEN rest
              ELSE [ret |-> "true", calls |-> rest.calls]

RECURSIVE any(_, _, _, _, _)
\* self.0.iter().any(|f| f.enabled(metadata, ctx.clone())), from element i on:
\* stops at the first true; a panic of the closure unwinds out of any().
any(self, metadata, ctx, i, calls) ==
    IF i > Len(self) THEN [ret |-> "false", calls |-> calls]
    ELSE LET r == Dyn(self[i], "enabled", <<metadata, Clone(ctx)>>) IN
         CASE r.ret = "true" -> [ret |-> "true", calls |-> calls \o r.calls]
           [] r.ret = "panic" -> [ret |-> "panic", calls |-> calls \o r.calls]
           [] OTHER -> any(self, metadata, ctx, i + 1, calls \o r.calls)

enabled(self, metadata, ctx) == any(self, metadata, ctx, 1, <<>>)

RECURSIVE for_each_rev(_, _, _, _)
\* self.0.iter().rev().for_each(..).
for_each_rev(self, op, args, i) ==
    IF i > Len(self) THEN <<>>
    ELSE Dyn(self[Len(self) + 1 - i], op, args).calls \o for_each_rev(self, op, args, i + 1)

RECURSIVE for_each(_, _, _, _)
\* self.0.iter().for_each(|inner| inner.<op>(<args>)), from element i on.
for_each(self, op, args, i) ==
    IF i > Len(self) THEN <<>>
    ELSE Dyn(self[i], op, args).calls \o for_each(self, op, args, i + 1)

new_span(self, attrs, id, ctx) ==
    [ret |-> "unit", calls |-> for_each(self, "new_span", <<attrs, id, Clone(ctx)>>, 1)]

on_record(self, span, values, ctx) ==
    [ret |-> "unit", calls |-> for_each(self, "on_record", <<span, values, Clone(ctx)>>, 1)]

on_follows_from(self, span, follows, ctx) ==
    [ret |-> "unit",
     calls |-> for_each(self, "on_follows_from", <<span, follows, Clone(ctx)>>, 1)]

\* on_event delivered only to the stacks whose own enabled check passes.
on_event_if_enabled(self, event, ctx) ==
    [ret |-> "unit",
     calls |-> for_each(SelectSeq(self,
                            LAMBDA f : Dyn(f, "enabled", <<"metadata", Clone(ctx)>>).ret = "true"),
                        "on_event", <<event, Clone(ctx)>>, 1)]

on_event(self, event, ctx) ==
    [ret |-> "unit", calls |-> for_each(self, "on_event", <<event, Clone(ctx)>>, 1)]

on_enter(self, id, ctx) ==
    [ret |-> "unit", calls |-> for_each(self, "on_enter", <<id, Clone(ctx)>>, 1)]

on_exit(self, id, ctx) ==
    [ret |-> "unit", calls |-> for_each(self, "on_exit", <<id, Clone(ctx)>>, 1)]

on_close(self, id, ctx) ==
    [ret |-> "unit", calls |-> for_each(self, "on_close", <<id, Clone(ctx)>>, 1)]

on_id_change(self, old, new, ctx) ==
    [ret |-> "unit", calls |-> for_each(self, "on_id_change", <<old, new, Clone(ctx)>>, 1)]

\* impl Layer<S> for DispatchLayer<S>: the method that operation c names,
\* applied to the DispatchLayer whose Vec is self.
Perform(self, c) ==
    CASE c.op = "register_callsite" -> register_callsite(self, c.args[1])
      [] c.op = "enabled" -> enabled(self, c.args[1], c.args[2])
      [] c.op = "new_span" -> new_span(self, c.args[1], c.args[2], c.args[3])
      [] c.op = "on_record" -> on_record(self, c.args[1], c.args[2], c.args[3])
      [] c.op = "on_follows_from" ->
            on_follows_from(self, c.args[1], c.args[2], c.args[3])
      [] c.op = "on_event" -> on_event(self, c.args[1], c.args[2])
      [] c.op = "on_enter" -> on_enter(self, c.args[1], c.args[2])
      [] c.op = "on_exit" -> on_exit(self, c.args[1], c.args[2])
      [] c.op = "on_close" -> on_close(self, c.args[1], c.args[2])
      [] c.op = "on_id_change" -> on_id_change(self, c.args[1], c.args[2], c.args[3])

Dyn(f, op, args) ==
    IF f.kind = "layer" THEN LayerAnswer(f, op, args)
    ELSE Perform(f.members, [op |-> op, args |-> args])

(***************************************************************************)
(* The state machine: new(), then any sequence of with() and Layer calls.  *)
(***************************************************************************)

\* DispatchLayer::new
Init ==
    /\ layers = <<>>
    /\ call = [op |-> "new", args |-> <<>>]
    /\ ret = "unit"
    /\ trace = <<>>

\* self.0.insert(0, ..) in place of push.
with_front(layer_stack) ==
    /\ Size(layers) + Size(<<layer_stack>>) <= MaxNodes
    /\ layers' = Number(<<layer_stack>>, CountLayers(layers)) \o layers
    /\ call' = [op |-> "with", args |-> <<layer_stack>>]
    /\ ret' = "unit"
    /\ trace' = <<>>

\* DispatchLayer::with: push the boxed stack; nothing is called.
with(layer_stack) ==
    /\ Size(layers) + Size(<<layer_stack>>) <= MaxNodes
    /\ layers' = layers \o Number(<<layer_stack>>, CountLayers(layers))
    /\ call' = [op |-> "with", args |-> <<layer_stack>>]
    /\ ret' = "unit"
    /\ trace' = <<>>

\* One Layer call on the DispatchLayer (&self): the Vec is only read.
Invoke(c) ==
    LET r == Perform(layers, c) IN
    /\ call' = c
    /\ ret' = r.ret
    /\ trace' = r.calls
    /\ UNCHANGED layers

RegisterCallsite ==
    \E m \in Metadatas : Invoke([op |-> "register_callsite", args |-> <<m>>])

Enabled ==
    \E m \in Metadatas, ctx \in Contexts :
        Invoke([op |-> "enabled", args |-> <<m, ctx>>])

NewSpan ==
    \E attrs \in Attributes, id \in Ids, ctx \in Contexts :
        Invoke([op |-> "new_span", args |-> <<attrs, id, ctx>>])

OnRecord ==
    \E span \in Ids, values \in Records, ctx \in Contexts :
        Invoke([op |-> "on_record", args |-> <<span, values, ctx>>])

OnFollowsFrom ==
    \E span \in Ids, follows \in Ids, ctx \in Contexts :
        Invoke([op |-> "on_follows_from", args |-> <<span, follows, ctx>>])

OnEvent ==
    \E event \in Events, ctx \in Contexts :
        Invoke([op |-> "on_event", args |-> <<event, ctx>>])

OnEnter ==
    \E id \in Ids, ctx \in Contexts : Invoke([op |-> "on_enter", args |-> <<id, ctx>>])

OnExit ==
    \E id \in Ids, ctx \in Contexts : Invoke([op |-> "on_exit", args |-> <<id, ctx>>])

OnClose ==
    \E id \in Ids, ctx \in Contexts : Invoke([op |-> "on_close", args |-> <<id, ctx>>])

OnIdChange ==
    \E old \in Ids, new \in Ids, ctx \in Contexts :
        Invoke([op |-> "on_id_change", args |-> <<old, new, ctx>>])

With == \E layer_stack \in StacksUpTo(MaxNodes - Size(layers)) : with(layer_stack)

Next ==
    \/ With
    \/ RegisterCallsite
    \/ Enabled
    \/ NewSpan
    \/ OnRecord
    \/ OnFollowsFrom
    \/ OnEvent
    \/ OnEnter
    \/ OnExit
    \/ OnClose
    \/ OnIdChange

Spec == Init /\ [][Next]_vars

(***************************************************************************)
(* Vocabulary of the properties.                                           *)
(***************************************************************************)

BroadcastOps ==
    {"new_span", "on_record", "on_follows_from", "on_event", "on_enter",
     "on_exit", "on_close", "on_id_change"}

LayerOps == BroadcastOps \cup {"register_callsite", "enabled"}

Rank(interest) ==
    CASE interest = "never" -> 0 [] interest = "sometimes" -> 1 [] interest = "always" -> 2

RECURSIVE Flatten(_)
\* The leaf layers of a Vec from left to right, nested DispatchLayers opened.
Flatten(vec) ==
    IF vec = <<>> THEN <<>>
    ELSE (IF Head(vec).kind = "layer" THEN <<Head(vec)>>
          ELSE Flatten(Head(vec).members)) \o Flatten(Tail(vec))

RECURSIVE Unnumber(_)
\* vec with the leaves' identities removed: the values as passed to with().
Unnumber(vec) ==
    IF vec = <<>> THEN <<>>
    ELSE <<[Head(vec) EXCEPT !.id = 0, !.members = Unnumber(Head(vec).members)]>>
         \o Unnumber(Tail(vec))

\* What each group of the dispatcher answers, on its own, to the last call.
Answers == [i \in 1..Len(layers) |-> Dyn(layers[i], call.op, call.args).ret]

\* The calls that reach the leaves fl when each gets the call once, in order.
Delivered(fl, op, args) == [i \in 1..Len(fl) |-> Invocation(fl[i], op, args)]

\* layers rearranged by the permutation p of its indices.
Permuted(p) == [i \in 1..Len(layers) |-> layers[p[i]]]

(***************************************************************************)
(* Interest aggregation.                                                   *)
(***************************************************************************)

\* C1: register_callsite returns the maximum, under never < sometimes <
\* always, of the interests its groups return for the same metadata: always
\* if any group returns always, otherwise sometimes if any returns
\* sometimes, otherwise never (never for a dispatcher without groups).
ThmC1 ==
    call.op = "register_callsite" =>
        LET given == {Answers[i] : i \in 1..Len(layers)} IN
        /\ ret = (IF "always" \in given THEN "always"
                  ELSE IF "sometimes" \in given THEN "sometimes"
                  ELSE "never")
        /\ \A a \in given : Rank(a) <= Rank(ret)
        /\ (layers = <<>> => ret = "never")

\* C1 witness: three groups answering sometimes, always, never were
\* aggregated to always.
WitC1 ==
    /\ call.op = "register_callsite"
    /\ Len(layers) = 3
    /\ Answers = <<"sometimes", "always", "never">>
    /\ ret = "always"

(***************************************************************************)
(* Enablement aggregation.                                                 *)
(***************************************************************************)

\* C2: when every group's enabled check returns normally, enabled returns
\* the OR of the groups' answers (true iff at least one group answers true,
\* false for a dispatcher without groups), which is also what evaluating
\* every group without short-circuiting gives.
ThmC2 ==
    (call.op = "enabled" /\ \A i \in 1..Len(layers) : Answers[i] # "panic") =>
        LET everyAnswer == {Answers[i] : i \in 1..Len(layers)} IN
        /\ (ret = "true") <=> (\E i \in 1..Len(layers) : Answers[i] = "true")
        /\ ret \in {"true", "false"}
        /\ (layers = <<>> => ret = "false")
        /\ ret = (IF "true" \in everyAnswer THEN "true" ELSE "false")

\* C2 witness: a false group followed by a true group gave true.
WitC2 ==
    /\ call.op = "enabled"
    /\ Len(layers) >= 2
    /\ Answers[1] = "false"
    /\ Answers[2] = "true"
    /\ ret = "true"

ThmC4 ==
    call.op \in BroadcastOps =>
        /\ trace = Delivered(Flatten(layers), call.op, call.args)
        /\ \A i \in 1..Len(layers) :
              layers[i].kind = "layer" =>
                  /\ Cardinality({k \in 1..Len(trace) : trace[k].layer = layers[i].id}) = 1
                  /\ \A j \in (i + 1)..Len(layers) :
                        layers[j].kind = "layer" =>
                            \E k, l \in 1..Len(trace) :
                                /\ k < l
                                /\ trace[k].layer = layers[i].id
                                /\ trace[l].layer = layers[j].id
        /\ ret = "unit"

\* C4 witness: on_id_change with two different ids reached three layers.
WitC4 ==
    /\ call.op = "on_id_change"
    /\ call.args[1] # call.args[2]
    /\ Len(layers) = 3
    /\ \A i \in 1..3 : layers[i].kind = "layer"
    /\ Len(trace) = 3

\* C5: a group that is not interested or not enabled never suppresses a
\* sibling.  With [A(never), B(always)] the interest is always and an event
\* reaches B; with [A(sometimes, false), B(never, true)] the interest is
\* sometimes, enabled is true and on_event reaches A then B once each; and
\* whatever the layers answer to register_callsite and enabled, every one
\* of them receives each broadcast once.
ThmC5 ==
    /\ (/\ Len(layers) = 2
        /\ \A i \in 1..2 : layers[i].kind = "layer"
        /\ layers[1].interest = "never"
        /\ layers[2].interest = "always") =>
            /\ call.op = "register_callsite" => ret = "always"
            /\ call.op = "on_event" =>
                  \E k \in 1..Len(trace) :
                      trace[k] = Invocation(layers[2], "on_event", call.args)
    /\ (/\ Len(layers) = 2
        /\ \A i \in 1..2 : layers[i].kind = "layer"
        /\ layers[1].interest = "sometimes" /\ layers[1].en = "false"
        /\ layers[2].interest = "never" /\ layers[2].en = "true") =>
            /\ call.op = "register_callsite" => ret = "sometimes"
            /\ call.op = "enabled" => ret = "true"
            /\ call.op = "on_event" =>
                  trace = <<Invocation(layers[1], "on_event", call.args),
                            Invocation(layers[2], "on_event", call.args)>>
    /\ call.op \in BroadcastOps =>
            LET fl == Flatten(layers) IN
            \A i \in 1..Len(fl) :
                Cardinality({k \in 1..Len(trace) :
                                trace[k] = Invocation(fl[i], call.op, call.args)}) = 1

\* C5 witness: on_event on [A(sometimes, false), B(never, true)].
WitC5 ==
    /\ call.op = "on_event"
    /\ Len(layers) = 2
    /\ \A i \in 1..2 : layers[i].kind = "layer"
    /\ layers[1].interest = "sometimes" /\ layers[1].en = "false"
    /\ layers[2].interest = "never" /\ layers[2].en = "true"
    /\ Len(trace) = 2

(***************************************************************************)
(* Composition.                                                            *)
(***************************************************************************)

\* C6: a dispatcher with nested DispatchLayers returns what the flat
\* dispatcher of its leaves (same left-to-right order) returns, and makes
\* the same calls to the leaves in the same order, for register_callsite,
\* enabled and every broadcast operation.
ThmC6 ==
    call.op \in LayerOps =>
        LET flat == Perform(Flatten(layers), call) IN
        /\ ret = flat.ret
        /\ trace = flat.calls

\* C6 witness: a call on a dispatcher holding a leaf and a nested
\* DispatchLayer with a leaf of its own.
WitC6 ==
    /\ call.op \in LayerOps
    /\ \E i, j \in 1..Len(layers) :
            /\ layers[i].kind = "layer"
            /\ layers[j].kind = "dispatch"
            /\ CountLayers(layers[j].members) >= 1
    /\ Len(trace) = 2

\* The interest fold is commutative and associative with identity never.
FoldIsMonoid ==
    \A a, b, c \in Interests :
        /\ fold_closure(a, b) = fold_closure(b, a)
        /\ fold_closure(fold_closure(a, b), c) = fold_closure(a, fold_closure(b, c))
        /\ fold_closure("never", a) = a
        /\ fold_closure(a, "never") = a

\* register_callsite and enabled (of groups that return normally) give the
\* same result for every rearrangement of the groups.
OrderIndependent ==
    /\ call.op = "register_callsite" =>
          \A p \in Permutations(1..Len(layers)) :
              register_callsite(Permuted(p), call.args[1]).ret = ret
    /\ (call.op = "enabled" /\ \A i \in 1..Len(layers) : Answers[i] # "panic") =>
          \A p \in Permutations(1..Len(layers)) :
              enabled(Permuted(p), call.args[1], call.args[2]).ret = ret

\* with() never lowers the interest of any callsite.
WithIsMonotonic ==
    call'.op = "with" =>
        \A m \in Metadatas :
            Rank(register_callsite(layers', m).ret) >= Rank(register_callsite(layers, m).ret)

WriteOnce ==
    /\ call'.op = "with" =>
          /\ Len(layers') = Len(layers) + 1
          /\ SubSeq(layers', 1, Len(layers)) = layers
          /\ Unnumber(<<layers'[Len(layers')]>>) = call'.args
    /\ call'.op # "with" => layers' = layers

ThmC9 ==
    call.op = "register_callsite" =>
        /\ trace = Delivered(Flatten(layers), "register_callsite", call.args)
        /\ \A k \in 1..Len(layers) :
              Answers[k] = "always" =>
                  \A n \in k..Len(layers) :
                      register_callsite(SubSeq(layers, 1, n), call.args[1]).ret = "always"

\* C9 witness: always was answered first, sometimes and never after it.
WitC9 ==
    /\ call.op = "register_callsite"
    /\ Len(layers) = 3
    /\ Answers = <<"always", "sometimes", "never">>
    /\ Len(trace) = 3
    /\ ret = "always"

\* The index of the first leaf of fl that answers true; Len(fl) if none.
FirstTrue(fl) ==
    IF \E i \in 1..Len(fl) : fl[i].en = "true"
    THEN CHOOSE i \in 1..Len(fl) :
            fl[i].en = "true" /\ \A j \in 1..(i - 1) : fl[j].en # "true"
    ELSE Len(fl)

====
